---- MODULE Spec2Model ----
(***************************************************************************)
(* A model of the pixel-art runtime: the Renderer's id registry, draw       *)
(* queue flattening and batched rendering (src/src/graphics/mod.rs), the    *)
(* sprite-sheet animation clock (pyxl .../sprite_sheet.rs) and the level    *)
(* geometry collision queries (src/src/game.rs, pyxl/src/math.rs), and the  *)
(* player controller (src/src/player.rs) driven by src/src/input.rs.        *)
(*                                                                         *)
(* Numbers: f32 quantities are modelled exactly on a grid.  Depths are the  *)
(* rationals num/den with den = len(queue); times are integer ticks, with   *)
(* the one non-finite value the code can produce (NaN) kept as a separate   *)
(* value; rectangle coordinates are integers.  f32 rounding is not          *)
(* modelled there.  The player's f32 values (positions, velocities, times)  *)
(* live on a grid of 1/100: a product is rounded to the grid, half away     *)
(* from zero, and a nonzero velocity never rounds to zero, as in f32.       *)
(***************************************************************************)
EXTENDS Integers, Sequences, FiniteSets, TLC

\* ------------------------------------------------------------------ bounds
MaxObjs == 2        \* object slots that can hold a live Sprite or SpriteSheet
MaxQueue == 2       \* longest draw queue built in one frame
MaxId == 2          \* loads stop once the next free id would exceed this
MaxCount == 3       \* largest frame count of a sprite sheet
MaxDur == 2         \* longest frame duration, in ticks
MaxDelta == 5       \* largest delta passed to advance, in ticks
MaxTotal == 6       \* advance is called until the deltas sum to this
MaxRects == 2       \* rectangles in the level geometry, over its three lists
MaxFrames == 5      \* frames of Player::update that are run
CreepLimit == 60    \* creep steps that carry a rectangle past every level here
MaxPos == 1         \* largest coordinate of a draw position, in pixels
MaxSize == 2        \* largest width or height of a texture, in pixels
MaxCols == 3        \* width of the "Ladders" layer, in tiles
MaxRows == 3        \* height of the "Ladders" layer, in tiles
MaxOff == 4         \* half pixels a lone call is placed from its anchor
MaxPresses == 129   \* presses of the jump key in a run of jumps

\* --------------------------------------------------------- program constants
FLIP_X == 1
FLIP_Y == 2

Handles == 1..MaxObjs
\* the tile layers of the map that can be queued
Layers == {"Inter"}
\* an empty slot, and the zero-initialised content of a fresh GPU buffer
NoObj == [kind |-> "None", id |-> 0]
Depth(n, d) == [num |-> n, den |-> d]
ZeroDepth == Depth(0, 1)
NoFrame == [valid |-> FALSE, queue |-> <<>>, calls |-> <<>>]
\* DrawParams::default() (position left out: offsets are not tracked here)
DefaultParams == [flip_x |-> FALSE, flip_y |-> FALSE, camera_locked |-> FALSE]
\* DrawParams::ui
Ui(params, enabled) == [params EXCEPT !.camera_locked = enabled]
\* the DrawParams Game::draw passes for sprites: world sprites and UI sprites
DrawParamChoices == {DefaultParams, Ui(DefaultParams, TRUE)}

VARIABLES
    sprite_ids,     \* Renderer.sprite_ids: the shared set of ids in use
    objs,           \* slot -> NoObj, or the live Sprite / SpriteSheet held there
    instances,      \* slot -> the object's instances list (RefCell<Vec<..>>)
    tile_depth,     \* layer -> content of TileLayer.tile_depth_buffer
    dq,             \* the DrawQueue under construction
    drawn,          \* NoFrame, or what the last render consumed and issued
    anim,           \* the AnimationTime, once built
    total,          \* the sum of the deltas passed to advance so far
    geometry,       \* the LevelGeometry: blocks, ladders, top_ladders
    query,          \* the last collision query and its three answers
    level,          \* the LevelGeometry Player::update is given
    state,          \* Player.state
    data,           \* Player.data
    input,          \* the Input of the last frame
    frames,         \* updates run so far
    delta_time,     \* Game.delta_time: the frame time
    probe,          \* what v_collide and h_collide did in the last update
    player_dq,      \* the DrawQueue Player::draw built for the last frame
    panicked,       \* whether an update has panicked on an arithmetic overflow
    placement,      \* the last draw offset computed, with its inputs
    ladder_tiles,   \* the tiles of the "Ladders" layer and the ladder tops
    resolved        \* the last single call of v_collide or h_collide

renderVars == <<sprite_ids, objs, instances, tile_depth, dq, drawn>>
animVars == <<anim, total>>
geomVars == <<geometry, query>>
playVars ==
    <<level, state, data, input, frames, delta_time, probe, player_dq,
      panicked>>
pureVars == <<placement, ladder_tiles, resolved>>
vars == <<renderVars, animVars, geomVars, playVars, pureVars>>

\* ------------------------------------------------------------ id registry

RECURSIVE FirstFreeFrom(_, _)
FirstFreeFrom(ids, id) ==
    IF id \notin ids THEN id ELSE FirstFreeFrom(ids, id + 1)

\* a plausible slip: the next id is the number of ids in use
FreshIdByCount(ids) == Cardinality(ids)

\* the `loop { if !ids.contains(&id) { insert; break id } id += 1 }` block
FreshId(ids) == FirstFreeFrom(ids, 0)

Live(h) == objs[h].kind # "None"
IsSprite(h) == Live(h) /\ objs[h].kind = "Sprite"
IsSheet(h) == Live(h) /\ objs[h].kind = "SpriteSheet"

Referenced(h) == \E i \in 1..Len(dq) : dq[i].kind # "TileLayer" /\ dq[i].ref = h

LoadSprite(h) ==
    /\ ~Live(h)
    /\ FreshId(sprite_ids) <= MaxId
    /\ LET id == FreshId(sprite_ids) IN
        /\ sprite_ids' = sprite_ids \cup {id}
        /\ objs' = [objs EXCEPT ![h] = [kind |-> "Sprite", id |-> id]]
        /\ instances' = [instances EXCEPT ![h] = <<>>]
    /\ UNCHANGED <<tile_depth, dq, drawn>>
    /\ UNCHANGED <<animVars, geomVars, playVars, pureVars>>

LoadSpriteSheet(h) ==
    /\ ~Live(h)
    /\ FreshId(sprite_ids) <= MaxId
    /\ LET id == FreshId(sprite_ids) IN
        /\ sprite_ids' = sprite_ids \cup {id}
        /\ objs' = [objs EXCEPT ![h] = [kind |-> "SpriteSheet", id |-> id]]
        /\ instances' = [instances EXCEPT ![h] = <<>>]
    /\ UNCHANGED <<tile_depth, dq, drawn>>
    /\ UNCHANGED <<animVars, geomVars, playVars, pureVars>>

\* impl Drop for Sprite: the id leaves the set.  A queue borrows the sprites
\* it references, so a referenced sprite cannot be dropped.
DropSprite(h) ==
    /\ IsSprite(h)
    /\ ~Referenced(h)
    /\ sprite_ids' = sprite_ids \ {objs[h].id}
    /\ objs' = [objs EXCEPT ![h] = NoObj]
    /\ instances' = [instances EXCEPT ![h] = <<>>]
    /\ UNCHANGED <<tile_depth, dq, drawn>>
    /\ UNCHANGED <<animVars, geomVars, playVars, pureVars>>

\* SpriteSheet has no Drop impl: its fields are dropped, sprite_ids is untouched
DropSpriteSheet(h) ==
    /\ IsSheet(h)
    /\ ~Referenced(h)
    /\ objs' = [objs EXCEPT ![h] = NoObj]
    /\ instances' = [instances EXCEPT ![h] = <<>>]
    /\ UNCHANGED <<sprite_ids, tile_depth, dq, drawn>>
    /\ UNCHANGED <<animVars, geomVars, playVars, pureVars>>

\* ------------------------------------------------------------- draw queue

\* bitwise OR of two 2-bit masks
BitOr(a, b) ==
    (IF (a % 2 = 1) \/ (b % 2 = 1) THEN 1 ELSE 0)
    + 2 * (IF ((a \div 2) % 2 = 1) \/ ((b \div 2) % 2 = 1) THEN 1 ELSE 0)

\* bitwise AND of two 2-bit masks
BitAnd(a, b) ==
    (IF (a % 2 = 1) /\ (b % 2 = 1) THEN 1 ELSE 0)
    + 2 * (IF ((a \div 2) % 2 = 1) /\ ((b \div 2) % 2 = 1) THEN 1 ELSE 0)

\* `FLIP_X | FLIP_Y` taken for `FLIP_X & FLIP_Y`
new_flip_mask_and(flip_x, flip_y) ==
    IF flip_x /\ flip_y THEN BitAnd(FLIP_X, FLIP_Y)
    ELSE IF flip_x THEN FLIP_X
    ELSE IF flip_y THEN FLIP_Y
    ELSE 0

new_flip_mask(flip_x, flip_y) ==
    IF flip_x /\ flip_y THEN BitOr(FLIP_X, FLIP_Y)
    ELSE IF flip_x THEN FLIP_X
    ELSE IF flip_y THEN FLIP_Y
    ELSE 0

\* DrawJob::Sprite(&sprite, params)
SpriteJob(h, params) ==
    [kind |-> "Sprite", ref |-> h, layer |-> "", t |-> 0, params |-> params]
\* DrawJob::SpriteSheet(&sheet, t, params)
SheetJob(h, t, params) ==
    [kind |-> "SpriteSheet", ref |-> h, layer |-> "", t |-> t, params |-> params]
\* DrawJob::TileLayer(&layer)
TileJob(l) ==
    [kind |-> "TileLayer", ref |-> 0, layer |-> l, t |-> 0,
     params |-> DefaultParams]

\* Game::draw starts every frame with DrawQueue::new()
NewQueue ==
    /\ drawn.valid
    /\ dq' = <<>>
    /\ drawn' = NoFrame
    /\ UNCHANGED <<sprite_ids, objs, instances, tile_depth>>
    /\ UNCHANGED <<animVars, geomVars, playVars, pureVars>>

QueueSprite(h, params) ==
    /\ ~drawn.valid
    /\ Len(dq) < MaxQueue
    /\ IsSprite(h)
    /\ dq' = Append(dq, SpriteJob(h, params))
    /\ UNCHANGED <<sprite_ids, objs, instances, tile_depth, drawn>>
    /\ UNCHANGED <<animVars, geomVars, playVars, pureVars>>

QueueSheet(h, t, params) ==
    /\ ~drawn.valid
    /\ Len(dq) < MaxQueue
    /\ IsSheet(h)
    /\ dq' = Append(dq, SheetJob(h, t, params))
    /\ UNCHANGED <<sprite_ids, objs, instances, tile_depth, drawn>>
    /\ UNCHANGED <<animVars, geomVars, playVars, pureVars>>

\* DrawQueue::tile_layer pushes unconditionally
QueueTileLayer(l) ==
    /\ ~drawn.valid
    /\ Len(dq) < MaxQueue
    /\ dq' = Append(dq, TileJob(l))
    /\ UNCHANGED <<sprite_ids, objs, instances, tile_depth, drawn>>
    /\ UNCHANGED <<animVars, geomVars, playVars, pureVars>>

\* --------------------------------------------------------------- rendering

SpriteInstance(job, depth) ==
    [depth |-> depth,
     flip_mask |-> new_flip_mask(job.params.flip_x, job.params.flip_y),
     ui |-> IF job.params.camera_locked THEN 1 ELSE 0]

SpriteSheetInstance(job, depth) ==
    [depth |-> depth,
     flip_mask |-> new_flip_mask(job.params.flip_x, job.params.flip_y),
     t |-> job.t]

\* the state flatten_draw_queue carries through its loop
FlattenStart(q) ==
    [sprites |-> <<>>, sprite_ids |-> {},
     sprite_sheets |-> <<>>, sprite_sheet_ids |-> {},
     tile_layers |-> <<>>,
     inst |-> instances, tdb |-> tile_depth,
     depth |-> Len(q)]

\* `if !ids.contains(&id) { list.push(x); ids.insert(id) }` left out
PushAlways(list, seen, h, id) == Append(list, h)

\* `if !ids.contains(&id) { list.push(x); ids.insert(id) }`
PushOnce(list, seen, h, id) == IF id \in seen THEN list ELSE Append(list, h)

\* one iteration of the loop; depths are in units of depth_step = 1/len(q)
FlattenJob(st, job, len) ==
    LET d == Depth(st.depth, len) IN
    IF job.kind = "Sprite" THEN
        [st EXCEPT
            !.inst[job.ref] = Append(@, SpriteInstance(job, d)),
            !.sprites = PushOnce(@, st.sprite_ids, job.ref, objs[job.ref].id),
            !.sprite_ids = @ \cup {objs[job.ref].id},
            !.depth = @ - 1]
    ELSE IF job.kind = "SpriteSheet" THEN
        [st EXCEPT
            !.inst[job.ref] = Append(@, SpriteSheetInstance(job, d)),
            !.sprite_sheets =
                PushOnce(@, st.sprite_sheet_ids, job.ref, objs[job.ref].id),
            !.sprite_sheet_ids = @ \cup {objs[job.ref].id},
            !.depth = @ - 1]
    ELSE
        [st EXCEPT
            !.tdb[job.layer] = d,
            !.tile_layers = Append(@, job.layer),
            !.depth = @ - 1]

RECURSIVE FlattenFrom(_, _, _)
FlattenFrom(st, q, i) ==
    IF i > Len(q) THEN st
    ELSE FlattenFrom(FlattenJob(st, q[i], Len(q)), q, i + 1)

flatten_draw_queue(q) == FlattenFrom(FlattenStart(q), q, 1)

\* the clear() forgotten
KeepInstances(inst, h) == inst

\* `x.instances.borrow_mut().clear()`
ClearInstances(inst, h) == [inst EXCEPT ![h] = <<>>]

\* A batched draw: the instance buffer was filled from the instances list
\* before the pass began, the instance count is read at draw time.
RECURSIVE DrawBatches(_, _, _, _, _)
DrawBatches(kind, list, buffers, inst, i) ==
    IF i > Len(list) THEN [calls |-> <<>>, inst |-> inst]
    ELSE
        LET h == list[i]
            call == [kind |-> kind, ref |-> h, layer |-> "",
                     buffer |-> buffers[h], count |-> Len(inst[h]),
                     depth |-> ZeroDepth]
            rest == DrawBatches(kind, list, buffers, ClearInstances(inst, h), i + 1)
        IN [calls |-> <<call>> \o rest.calls, inst |-> rest.inst]

\* the tile-layer loop: every entry of tile_layers is drawn; the layer's depth
\* is whatever its depth buffer holds once all queued writes have landed
DrawTileLayers(list, tdb) ==
    [i \in 1..Len(list) |->
        [kind |-> "TileLayer", ref |-> 0, layer |-> list[i],
         buffer |-> <<>>, count |-> 1, depth |-> tdb[list[i]]]]

Render ==
    /\ ~drawn.valid
    /\ LET f == flatten_draw_queue(dq)
           sp == DrawBatches("Sprite", f.sprites, f.inst, f.inst, 1)
           tl == DrawTileLayers(f.tile_layers, f.tdb)
           sh == DrawBatches("SpriteSheet", f.sprite_sheets, f.inst, sp.inst, 1)
       IN
        /\ instances' = sh.inst
        /\ tile_depth' = f.tdb
        /\ drawn' = [valid |-> TRUE, queue |-> dq,
                     calls |-> sp.calls \o tl \o sh.calls]
    /\ dq' = <<>>
    /\ UNCHANGED <<sprite_ids, objs>>
    /\ UNCHANGED <<animVars, geomVars, playVars, pureVars>>

\* ------------------------------------------------------------ initial state

\* an f32 time: a whole number of ticks, or NaN
Time(v) == [nan |-> FALSE, v |-> v]
NaN == [nan |-> TRUE, v |-> 0]

Constant(d) == [kind |-> "Constant", d |-> d, list |-> <<>>]
Variable(list) == [kind |-> "Variable", d |-> 0, list |-> list]
NoRate == [kind |-> "None", d |-> 0, list |-> <<>>]

NoAnim ==
    [built |-> FALSE, panicked |-> FALSE, t |-> Time(0), frame |-> 0,
     current_frame_duration |-> Time(0), frame_rate |-> NoRate, max |-> 1]

Rect(x, y, w, h) == [x |-> x, y |-> y, w |-> w, h |-> h]
NoQuery ==
    [valid |-> FALSE, rect |-> Rect(0, 0, 0, 0), colliding |-> FALSE,
     ladder_colliding |-> FALSE, top_ladder_colliding |-> FALSE]

\* ------------------------------------------------------------- the player

\* the f32 grid: one pixel, one pixel per second and one second are Unit steps
Unit == 100
Px(n) == n * Unit

GRAVITY == Px(2000)
H_SPEED == Px(200)
JUMP_SPEED == Px(500)
LAND_TIME == 10
ATTACK_DURATION == 20

Vec2(x, y) == [x |-> x, y |-> y]

\* Key { just_changed, pressed } (the mappings never change)
Key(pressed, just_changed) == [pressed |-> pressed, just_changed |-> just_changed]
KeyNames == {"jump", "left", "right", "attack", "down"}
\* Input::default()
InputDefault == [k \in KeyNames |-> Key(FALSE, FALSE)]

\* State, with the fields a variant does not carry held at a fixed value
StateOf(kind, sub, time, stage) ==
    [kind |-> kind, sub |-> sub, time |-> time, stage |-> stage]
Idle(sub, time) == StateOf("Idle", sub, time, "None")
Jump(sub) == StateOf("Jump", sub, 0, "None")
Run(sub) == StateOf("Run", sub, 0, "None")
\* AttackState { time: ATTACK_DURATION, stage: AttackStage::Up }
Attack(kind) == StateOf(kind, "None", ATTACK_DURATION, "Up")

\* Player::new: state and data
PlayerNewState == Idle("Standing", 0)
PlayerNewData ==
    [flipped |-> FALSE,
     health |-> 5,
     collision_rect |-> Rect(Px(-10), Px(-20), Px(20), Px(20)),
     velocity |-> Vec2(0, 0),
     position |-> Vec2(Px(100), Px(100)),
     jump_count |-> 0,
     on_ground |-> FALSE,
     direction |-> 0,
     queued_attack |-> FALSE,
     attack_cooldown |-> 0,
     hurtbox |-> Rect(Px(-10), Px(-10), Px(20), Px(20))]

NoLevel == [loaded |-> FALSE, rectangles |-> <<>>, top_ladders |-> <<>>]
NoAxis ==
    [called |-> FALSE, hit |-> FALSE, velocity |-> 0, position |-> 0,
     cross |-> 0, snapped |-> 0, result |-> 0, steps |-> 0, hung |-> FALSE,
     clear |-> TRUE]
NoProbe == [v |-> NoAxis, h |-> NoAxis]

NoPlacement ==
    [valid |-> FALSE, kind |-> "Sprite", position |-> Vec2(0, 0),
     origin |-> Vec2(0, 0), size |-> Vec2(0, 0), flip_x |-> FALSE,
     flip_y |-> FALSE, offset |-> Vec2(0, 0), flip_mask |-> 0]
NoTiles == [loaded |-> FALSE, tiles |-> <<>>, top_ladders |-> <<>>]
\* no call of v_collide or h_collide made yet
NoCall ==
    [valid |-> FALSE, fn |-> "none", level |-> NoLevel, delta |-> 0,
     before |-> PlayerNewData, after |-> PlayerNewData, axis |-> NoAxis]

Init ==
    /\ sprite_ids = {}
    /\ objs = [h \in Handles |-> NoObj]
    /\ instances = [h \in Handles |-> <<>>]
    /\ tile_depth = [l \in Layers |-> ZeroDepth]
    /\ dq = <<>>
    /\ drawn = NoFrame
    /\ anim = NoAnim
    /\ total = 0
    /\ geometry = [blocks |-> <<>>, ladders |-> <<>>, top_ladders |-> <<>>]
    /\ query = NoQuery
    /\ level = NoLevel
    /\ state = PlayerNewState
    /\ data = PlayerNewData
    /\ input = InputDefault
    /\ frames = 0
    /\ delta_time = 0
    /\ probe = NoProbe
    /\ player_dq = <<>>
    /\ placement = NoPlacement
    /\ panicked = FALSE
    /\ ladder_tiles = NoTiles
    /\ resolved = NoCall

\* Game::draw builds and renders its queue in one synchronous call, so
\* sprites are loaded and dropped between frames only
BetweenFrames == dq = <<>> /\ ~drawn.valid
\* slots are interchangeable: a load takes the first empty one
FirstEmpty(h) == ~Live(h) /\ \A g \in 1..(h - 1) : Live(g)

NextRender ==
    \/ \E h \in Handles : BetweenFrames /\ FirstEmpty(h) /\ LoadSprite(h)
    \/ \E h \in Handles : BetweenFrames /\ FirstEmpty(h) /\ LoadSpriteSheet(h)
    \/ \E h \in Handles : BetweenFrames /\ DropSprite(h)
    \/ \E h \in Handles : BetweenFrames /\ DropSpriteSheet(h)
    \/ NewQueue
    \/ \E h \in Handles, p \in DrawParamChoices : QueueSprite(h, p)
    \/ \E h \in Handles : QueueSheet(h, 0, DefaultParams)
    \/ \E l \in Layers : QueueTileLayer(l)
    \/ Render

SpecRender == Init /\ [][NextRender]_vars

\* ------------------------------------------------- properties of rendering

\* how many of the first k jobs of q reference object h as a `kind` job
CountRefs(q, kind, h, k) ==
    Cardinality({i \in 1..k : q[i].kind = kind /\ q[i].ref = h})

\* the draw calls of the last frame for object h / for layer l
CallsFor(kind, h) ==
    {i \in 1..Len(drawn.calls) :
        drawn.calls[i].kind = kind /\ drawn.calls[i].ref = h}
TileCallsFor(l) ==
    {i \in 1..Len(drawn.calls) :
        drawn.calls[i].kind = "TileLayer" /\ drawn.calls[i].layer = l}

DepthLess(a, b) == a.num * b.den < b.num * a.den

\* the depth the k-th job of the last frame is drawn with: the depth in its
\* record of the batch, or what its layer's depth buffer holds at the draw
JobDepth(k) ==
    LET q == drawn.queue
        job == q[k]
    IN IF job.kind = "TileLayer"
       THEN drawn.calls[CHOOSE i \in TileCallsFor(job.layer) : TRUE].depth
       ELSE drawn.calls[CHOOSE i \in CallsFor(job.kind, job.ref) : TRUE]
                .buffer[CountRefs(q, job.kind, job.ref, k)].depth

(* C1: in every rendered non-empty queue the depths the jobs are drawn with
   strictly decrease in submission order, so no two jobs share a depth. *)
C1_DepthsStrictlyDecreasing ==
    drawn.valid =>
        \A i, j \in 1..Len(drawn.queue) :
            i < j => DepthLess(JobDepth(j), JobDepth(i))

\* the records the jobs of q that reference h must leave, in submission order,
\* the i-th job of the queue at depth 1 - (i-1)/len(q)
RECURSIVE ExpectedBatch(_, _, _, _)
ExpectedBatch(kind, h, q, i) ==
    IF i > Len(q) THEN <<>>
    ELSE IF q[i].kind = kind /\ q[i].ref = h
    THEN <<(IF kind = "Sprite"
            THEN SpriteInstance(q[i], Depth(Len(q) - (i - 1), Len(q)))
            ELSE SpriteSheetInstance(q[i], Depth(Len(q) - (i - 1), Len(q))))>>
         \o ExpectedBatch(kind, h, q, i + 1)
    ELSE ExpectedBatch(kind, h, q, i + 1)

(* C2: render issues exactly one batched draw call per sprite and per sprite
   sheet the queue references, however often it is referenced, and that
   batch holds one record per referencing job, in submission order. *)
C2_OneBatchPerVisual ==
    drawn.valid =>
        \A kind \in {"Sprite", "SpriteSheet"}, h \in Handles :
            LET n == CountRefs(drawn.queue, kind, h, Len(drawn.queue)) IN
            IF n = 0 THEN CallsFor(kind, h) = {}
            ELSE /\ Cardinality(CallsFor(kind, h)) = 1
                 /\ \A i \in CallsFor(kind, h) :
                      /\ drawn.calls[i].buffer = ExpectedBatch(kind, h, drawn.queue, 1)
                      /\ drawn.calls[i].count = n

C2_Witness ==
    /\ drawn.valid
    /\ \E h \in Handles :
        /\ CountRefs(drawn.queue, "Sprite", h, Len(drawn.queue)) = 2
        /\ Cardinality(CallsFor("Sprite", h)) = 1

(* C3: whenever render has returned every instance list is empty, and no
   batch of a frame holds more records than that frame's queue put there. *)
C3_InstancesCleared ==
    /\ \A h \in Handles : instances[h] = <<>>
    /\ drawn.valid =>
        \A i \in 1..Len(drawn.calls) :
            drawn.calls[i].kind # "TileLayer" =>
                Len(drawn.calls[i].buffer)
                    = CountRefs(drawn.queue, drawn.calls[i].kind,
                                drawn.calls[i].ref, Len(drawn.queue))

\* a later frame (an earlier one left its depth in the layer's buffer) that
\* drew a sprite and a sheet
C3_Witness ==
    /\ drawn.valid
    /\ tile_depth["Inter"] # ZeroDepth
    /\ \A i \in 1..Len(drawn.queue) : drawn.queue[i].kind # "TileLayer"
    /\ \E i, j \in 1..Len(drawn.queue) :
        drawn.queue[i].kind = "Sprite" /\ drawn.queue[j].kind = "SpriteSheet"
    /\ \A h \in Handles : instances[h] = <<>>

(* C4: within one frame each tile layer is drawn at most once, however many
   TileLayer jobs the queue holds for it. *)
C4_TileLayerDrawnOnce ==
    drawn.valid => \A l \in Layers : Cardinality(TileCallsFor(l)) <= 1

LiveHandles == {h \in Handles : Live(h)}

(* C5: no two live sprites or sprite sheets hold the same id, and every live
   id is in the in-use set. *)
C5_LiveIdsUnique ==
    /\ \A h, g \in LiveHandles : h # g => objs[h].id # objs[g].id
    /\ \A h \in LiveHandles : objs[h].id \in sprite_ids

\* two live objects loaded after an id had been taken by a since-dropped one
C5_Witness ==
    /\ Cardinality(LiveHandles) = 2
    /\ Cardinality(sprite_ids) = 3

(* C6: the in-use set contains only ids of live sprites and sheets: a
   destroyed sprite's or sheet's id has left it and can be handed out again. *)
C6_InUseOnlyLive ==
    sprite_ids \subseteq {objs[h].id : h \in LiveHandles}
\* ---------------------------------------------------------- AnimationTime

\* Vec<f32> of up to n durations
RECURSIVE DurationLists(_)
DurationLists(n) ==
    IF n = 0 THEN {<<>>}
    ELSE DurationLists(n - 1)
         \cup {Append(l, d) : l \in {m \in DurationLists(n - 1) : Len(m) = n - 1},
                              d \in 1..MaxDur}

FrameRates ==
    {Constant(d) : d \in 0..MaxDur}
    \cup {Variable(l) : l \in DurationLists(MaxCount)}
    \cup {NoRate}

\* frame_durations[self.frame as usize] panics when the index is out of range
IndexInRange(a) ==
    a.frame_rate.kind = "Variable" => a.frame + 1 \in DOMAIN a.frame_rate.list

current_frame_duration(a) ==
    IF a.frame_rate.kind = "Constant" THEN a.frame_rate.d
    ELSE IF a.frame_rate.kind = "Variable" THEN a.frame_rate.list[a.frame + 1]
    ELSE 0

\* f32 addition, comparison and remainder on ticks; x % 0.0 is NaN
AddTime(t, delta) == IF t.nan THEN NaN ELSE Time(t.v + delta)
GreaterThan(t, d) == ~t.nan /\ t.v > d
RemTime(t, d) == IF t.nan \/ d = 0 THEN NaN ELSE Time(t.v % d)

\* AnimationTime::new(&sprite_sheet)
AnimNew(count, rate) ==
    /\ ~anim.built /\ ~anim.panicked
    /\ LET inst == [NoAnim EXCEPT !.frame_rate = rate, !.max = count] IN
        IF IndexInRange(inst)
        THEN anim' = [inst EXCEPT !.built = TRUE,
                        !.current_frame_duration = Time(current_frame_duration(inst))]
        ELSE anim' = [inst EXCEPT !.panicked = TRUE]
    /\ total' = 0
    /\ UNCHANGED <<renderVars, geomVars, playVars, pureVars>>

\* `self.frame = (self.frame + 1) % self.max`
NextFrame(frame, max) == (frame + 1) % max

\* AnimationTime::advance(delta)
Advance(delta) ==
    /\ anim.built /\ ~anim.panicked
    /\ total + delta <= MaxTotal
    /\ LET t1 == AddTime(anim.t, delta) IN
        IF ~IndexInRange(anim)
        THEN anim' = [anim EXCEPT !.t = t1, !.panicked = TRUE]
        ELSE LET cfd == current_frame_duration(anim) IN
            IF GreaterThan(t1, cfd)
            THEN anim' = [anim EXCEPT !.t = RemTime(t1, cfd),
                            !.frame = NextFrame(anim.frame, anim.max)]
            ELSE anim' = [anim EXCEPT !.t = t1]
    /\ total' = total + delta
    /\ UNCHANGED <<renderVars, geomVars, playVars, pureVars>>

NextAnim ==
    \/ \E count \in 1..MaxCount, rate \in FrameRates : AnimNew(count, rate)
    \/ \E delta \in 0..MaxDelta : Advance(delta)

SpecAnim == Init /\ [][NextAnim]_vars

(* C7: for a sheet with count >= 1, after any advance calls frame is in
   [0, count) and, for FrameRate::Variable, is a valid index into the
   duration list current_frame_duration reads. *)
C7_FrameValidIndex ==
    anim.built =>
        /\ anim.frame \in 0..(anim.max - 1)
        /\ IndexInRange(anim)

\* the part of C7 about the range alone
FrameInRange == anim.built => anim.frame \in 0..(anim.max - 1)

(* C8: with FrameRate::Constant(d), after advance calls whose deltas sum to
   T the frame is floor(T / d) mod count. *)
C8_FrameIsFloorOfTotal ==
    (anim.built /\ anim.frame_rate.kind = "Constant" /\ anim.frame_rate.d > 0) =>
        anim.frame = (total \div anim.frame_rate.d) % anim.max

(* C9: with FrameRate::None advance never changes frame: it stays at the
   value it had before the first call, which is 0. *)
C9_NoneNeverAdvances ==
    (anim.built /\ anim.frame_rate.kind = "None") => anim.frame = 0

\* ---------------------------------------------------------- level geometry

Coords == {0, 1}
Sizes == {0, 1}
\* the rectangles a query is made with: points, segments and unit squares
RectChoices == {Rect(x, y, w, h) : x \in Coords, y \in Coords, w \in Sizes, h \in Sizes}
\* the rectangles Game::new makes of tiles: one tile wide and high, at tile
\* positions (the tile is the unit of length)
TileRects == {Rect(x, y, 1, 1) : x \in Coords, y \in Coords}
right(r) == r.x + r.w
top(r) == r.y
left(r) == r.x
bottom(r) == r.y + r.h

\* overlap of the open rectangles: touching does not count
containsStrictly(self, other) ==
    ~(right(self) <= left(other)
        \/ left(self) >= right(other)
        \/ top(self) >= bottom(other)
        \/ bottom(self) <= top(other))

\* Rectangle::contains
contains(self, other) ==
    ~(right(self) < left(other)
        \/ left(self) > right(other)
        \/ top(self) > bottom(other)
        \/ bottom(self) < top(other))

\* `list.iter().any(|r| r.contains(&rect))`
AnyContains(list, rect) == \E i \in 1..Len(list) : contains(list[i], rect)

colliding(rect) == AnyContains(geometry.blocks, rect)
ladder_colliding(rect) == AnyContains(geometry.ladders, rect)
top_ladder_colliding(rect) == AnyContains(geometry.top_ladders, rect)

GeometrySize ==
    Len(geometry.blocks) + Len(geometry.ladders) + Len(geometry.top_ladders)

\* Game::new collects the rectangles of the level into the three lists
PushBlock(r) ==
    /\ GeometrySize < MaxRects
    /\ geometry' = [geometry EXCEPT !.blocks = Append(@, r)]
    /\ query' = NoQuery
    /\ UNCHANGED <<renderVars, animVars, playVars, pureVars>>

PushLadder(r) ==
    /\ GeometrySize < MaxRects
    /\ geometry' = [geometry EXCEPT !.ladders = Append(@, r)]
    /\ query' = NoQuery
    /\ UNCHANGED <<renderVars, animVars, playVars, pureVars>>

PushTopLadder(r) ==
    /\ GeometrySize < MaxRects
    /\ geometry' = [geometry EXCEPT !.top_ladders = Append(@, r)]
    /\ query' = NoQuery
    /\ UNCHANGED <<renderVars, animVars, playVars, pureVars>>

\* the three collision queries on one rectangle
Query(rect) ==
    /\ query' = [valid |-> TRUE, rect |-> rect,
                 colliding |-> colliding(rect),
                 ladder_colliding |-> ladder_colliding(rect),
                 top_ladder_colliding |-> top_ladder_colliding(rect)]
    /\ UNCHANGED <<geometry, renderVars, animVars, playVars, pureVars>>

NextGeom ==
    \/ \E r \in TileRects : PushBlock(r)
    \/ \E r \in TileRects : PushLadder(r)
    \/ \E r \in TileRects : PushTopLadder(r)
    \/ \E r \in RectChoices : Query(r)

SpecGeom == Init /\ [][NextGeom]_vars

\* the points of the plane the rectangles can cover
PointCoords == 0..2
Covers(r, px, py) ==
    /\ r.x <= px /\ px <= r.x + r.w
    /\ r.y <= py /\ py <= r.y + r.h
\* some rectangle of the list and rect have a point in common, borders included
SharesPoint(list, rect) ==
    \E i \in 1..Len(list), px \in PointCoords, py \in PointCoords :
        Covers(list[i], px, py) /\ Covers(rect, px, py)

(* C10: colliding(rect) is true iff some solid block and rect overlap as
   closed rectangles (share at least one point, so touching edges and corners
   count, and an empty block list gives false); ladder_colliding and
   top_ladder_colliding are the same test over the ladder and ladder-top lists. *)
C10_CollidingIsClosedOverlap ==
    query.valid =>
        /\ query.colliding = SharesPoint(geometry.blocks, query.rect)
        /\ query.ladder_colliding = SharesPoint(geometry.ladders, query.rect)
        /\ query.top_ladder_colliding = SharesPoint(geometry.top_ladders, query.rect)

\* a query that misses the first of two blocks and only touches the border
\* of the second (at the block's corner), with no ladders in the level
C10_Witness ==
    /\ query.valid /\ query.colliding
    /\ Len(geometry.blocks) = 2
    /\ right(query.rect) < left(geometry.blocks[1])
    /\ right(query.rect) = left(geometry.blocks[2])
    /\ bottom(query.rect) = top(geometry.blocks[2])
    /\ ~query.ladder_colliding /\ ~query.top_ladder_colliding

\* ------------------------------------------------------ player arithmetic

Abs(v) == IF v < 0 THEN -v ELSE v
\* f32::signum: 1.0 for +0.0 and above, -1.0 below
signum(v) == IF v < 0 THEN -1 ELSE 1
\* n / d rounded to the grid, half away from zero (d > 0)
Round(n, d) ==
    IF n >= 0 THEN (2 * n + d) \div (2 * d) ELSE -((2 * (-n) + d) \div (2 * d))
\* the f32 product v * (n / d): nonzero factors never give zero
Mul(v, n, d) ==
    LET r == Round(v * n, d)
    IN  IF r = 0 /\ v # 0 /\ n # 0 THEN signum(v * n) ELSE r
\* f32::floor and f32::ceil of a grid value
floor(v) == (v \div Unit) * Unit
ceil(v) == -floor(-v)

\* Rect::translate
translate(rect, other) ==
    Rect(rect.x + other.x, rect.y + other.y, rect.w, rect.h)

\* Data::collision
collision(rect, level_geometry) ==
    \E i \in 1..Len(level_geometry.rectangles) :
        contains(level_geometry.rectangles[i], rect)

\* ------------------------------------------------------------ Data methods

\* the attack key queues while it is down, not when it goes down
attack_test_held(d, delta, inp) ==
    LET queued == d.queued_attack \/ inp.attack.pressed
        cooldown == IF d.attack_cooldown > 0 THEN d.attack_cooldown - delta
                    ELSE d.attack_cooldown
    IN  [d EXCEPT !.attack_cooldown = cooldown,
                  !.queued_attack = queued /\ cooldown <= 0]

\* `&&` in the last line taken for `||`
attack_test_or(d, delta, inp) ==
    LET queued == d.queued_attack \/ (inp.attack.just_changed /\ inp.attack.pressed)
        cooldown == IF d.attack_cooldown > 0 THEN d.attack_cooldown - delta
                    ELSE d.attack_cooldown
    IN  [d EXCEPT !.attack_cooldown = cooldown,
                  !.queued_attack = queued \/ cooldown <= 0]

attack_test(d, delta, inp) ==
    LET queued == d.queued_attack \/ (inp.attack.just_changed /\ inp.attack.pressed)
        cooldown == IF d.attack_cooldown > 0 THEN d.attack_cooldown - delta
                    ELSE d.attack_cooldown
    IN  [d EXCEPT !.attack_cooldown = cooldown,
                  !.queued_attack = queued /\ cooldown <= 0]

update_velocity(d) ==
    LET vx == d.velocity.x
        target == d.direction * H_SPEED - vx
    IN  [d EXCEPT !.velocity.x =
            IF d.direction = 0 THEN Mul(vx, 3, 10)
            ELSE IF signum(d.direction) = signum(vx) THEN vx + Mul(target, 5, 10)
            ELSE vx + Mul(target, 7, 10)]

apply_gravity(d, delta) ==
    [d EXCEPT !.velocity.y = @ + Mul(GRAVITY, delta, Unit)]

\* `self.jump_count -= 1` on an i8, as a release build computes it
Dec8(n) == IF n = -128 THEN 127 ELSE n - 1

jump_test(d, inp) ==
    IF inp.jump.just_changed /\ inp.jump.pressed
    THEN [d EXCEPT !.velocity.y = -JUMP_SPEED,
                   !.jump_count = Dec8(@),
                   !.on_ground = FALSE]
    ELSE d

update_pos(d, delta) ==
    [d EXCEPT !.position.x = @ + Round(d.velocity.x * delta, Unit),
              !.position.y = @ + Round(d.velocity.y * delta, Unit)]

\* what one of v_collide / h_collide did: whether the displaced rectangle
\* collided, the velocity and position it saw on its axis, the position it
\* saw on the other axis, the snapped position, the position it left, the
\* number of creep steps, whether its loop failed to end, and whether the
\* rectangle it left is free of the level's rectangles
Axis(hit, velocity, position, cross, snapped, result, steps, hung, clear) ==
    [called |-> TRUE, hit |-> hit, velocity |-> velocity,
     position |-> position, cross |-> cross, snapped |-> snapped,
     result |-> result, steps |-> steps, hung |-> hung, clear |-> clear]

\* floor and ceil exchanged
snap_forward(velocity, position) ==
    IF velocity > 0 THEN ceil(position) ELSE floor(position)

\* the snap of v_collide and h_collide: `if velocity > 0.0 { position.floor() }
\* else { position.ceil() }`
snap(velocity, position) ==
    IF velocity > 0 THEN floor(position) ELSE ceil(position)

RECURSIVE v_creep(_, _, _, _)
\* the `while` loop of v_collide, from position.y = y after n steps
v_creep(d, level_geometry, y, n) ==
    LET step == signum(d.velocity.y) * Unit
        ahead == translate(d.collision_rect, Vec2(d.position.x, y + step))
    IN  IF collision(ahead, level_geometry)
        THEN [position |-> y, steps |-> n, hung |-> FALSE]
        ELSE IF n = CreepLimit
        THEN [position |-> y, steps |-> n, hung |-> TRUE]
        ELSE v_creep(d, level_geometry, y + step, n + 1)

v_collide(d, delta, level_geometry) ==
    LET moved == translate(d.collision_rect,
                    Vec2(d.position.x,
                         d.position.y + Round(d.velocity.y * delta, Unit)))
        snapped == snap(d.velocity.y, d.position.y)
        crept == v_creep(d, level_geometry, snapped, 0)
    IN  IF collision(moved, level_geometry)
        THEN [data |-> [d EXCEPT !.on_ground = IF d.velocity.y > 0 THEN TRUE ELSE @,
                                 !.position.y = crept.position,
                                 !.velocity.y = 0],
              axis |-> Axis(TRUE, d.velocity.y, d.position.y, d.position.x, snapped,
                            crept.position, crept.steps, crept.hung,
                            ~collision(translate(d.collision_rect,
                                         Vec2(d.position.x, crept.position)),
                                       level_geometry))]
        ELSE [data |-> d,
              axis |-> Axis(FALSE, d.velocity.y, d.position.y, d.position.x,
                            d.position.y, d.position.y, 0, FALSE,
                            ~collision(translate(d.collision_rect, d.position),
                                       level_geometry))]

RECURSIVE h_creep(_, _, _, _)
\* the `while` loop of h_collide, from position.x = x after n steps
h_creep(d, level_geometry, x, n) ==
    LET step == signum(d.velocity.x) * Unit
        ahead == translate(d.collision_rect, Vec2(x + step, d.position.y))
    IN  IF collision(ahead, level_geometry)
        THEN [position |-> x, steps |-> n, hung |-> FALSE]
        ELSE IF n = CreepLimit
        THEN [position |-> x, steps |-> n, hung |-> TRUE]
        ELSE h_creep(d, level_geometry, x + step, n + 1)

h_collide(d, delta, level_geometry) ==
    LET moved == translate(d.collision_rect,
                    Vec2(d.position.x + Round(d.velocity.x * delta, Unit),
                         d.position.y))
        snapped == snap(d.velocity.x, d.position.x)
        crept == h_creep(d, level_geometry, snapped, 0)
    IN  IF collision(moved, level_geometry)
        THEN [data |-> [d EXCEPT !.position.x = crept.position,
                                 !.velocity.x = 0],
              axis |-> Axis(TRUE, d.velocity.x, d.position.x, d.position.y, snapped,
                            crept.position, crept.steps, crept.hung,
                            ~collision(translate(d.collision_rect,
                                         Vec2(crept.position, d.position.y)),
                                       level_geometry))]
        ELSE [data |-> d,
              axis |-> Axis(FALSE, d.velocity.x, d.position.x, d.position.y,
                            d.position.x, d.position.x, 0, FALSE,
                            ~collision(translate(d.collision_rect, d.position),
                                       level_geometry))]

\* ---------------------------------------------------------- Player::update

\* AttackState::advance
advance(st, delta) ==
    LET time == st.time - delta
    IN  IF time < 0
        THEN [st EXCEPT !.stage = "Finish", !.time = ATTACK_DURATION]
        ELSE [st EXCEPT !.time = time]

\* h_collide called before v_collide
MoveHorizontalFirst(d, delta, level_geometry) ==
    LET Vertical(h) ==
            LET Position(v) ==
                    IF v.axis.hung
                    THEN [data |-> v.data, v |-> v.axis, h |-> h.axis]
                    ELSE [data |-> update_pos(v.data, delta),
                          v |-> v.axis, h |-> h.axis]
            IN  IF h.axis.hung
                THEN [data |-> h.data, v |-> NoAxis, h |-> h.axis]
                ELSE Position(v_collide(h.data, delta, level_geometry))
    IN  Vertical(h_collide(d, delta, level_geometry))

\* v_collide, h_collide and update_pos, in the order every moving arm has them
Move(d, delta, level_geometry) ==
    LET Horizontal(v) ==
            LET Position(h) ==
                    IF h.axis.hung
                    THEN [data |-> h.data, v |-> v.axis, h |-> h.axis]
                    ELSE [data |-> update_pos(h.data, delta),
                          v |-> v.axis, h |-> h.axis]
            IN  IF v.axis.hung
                THEN [data |-> v.data, v |-> v.axis, h |-> NoAxis]
                ELSE Position(h_collide(v.data, delta, level_geometry))
    IN  Horizontal(v_collide(d, delta, level_geometry))

\* the first `match`: update the player in its state
UpdateArm(st, d, delta, inp, level_geometry) ==
    CASE st.kind = "Idle" ->
            LET Standing(v) ==
                    [state |-> IF st.sub = "Landing"
                               THEN [st EXCEPT !.time = @ - delta] ELSE st,
                     data |-> IF v.axis.hung THEN v.data
                              ELSE attack_test(jump_test(v.data, inp), delta, inp),
                     v |-> v.axis, h |-> NoAxis]
            IN  Standing(v_collide(d, delta, level_geometry))
      [] st.kind \in {"Jump", "Run"} ->
            LET Moving(m) ==
                    [state |-> st,
                     data |-> IF m.v.hung \/ m.h.hung THEN m.data
                              ELSE jump_test(m.data, inp),
                     v |-> m.v, h |-> m.h]
            IN  Moving(Move(update_velocity(
                            attack_test(apply_gravity(d, delta), delta, inp)),
                          delta, level_geometry))
      [] st.kind = "AttackIdle" ->
            LET Lunging(m) ==
                    [state |-> advance(st, delta), data |-> m.data,
                     v |-> m.v, h |-> m.h]
            IN  Lunging(Move([apply_gravity(d, delta) EXCEPT
                                  !.velocity.x = Px(80) * d.direction],
                             delta, level_geometry))
      [] OTHER ->
            LET Attacking(m) ==
                    [state |-> advance(st, delta), data |-> m.data,
                     v |-> m.v, h |-> m.h]
            IN  Attacking(Move(apply_gravity(d, delta), delta, level_geometry))

\* `>=` taken for `>`
SprintReachedStrictly(vx) == Abs(vx) * 2 > H_SPEED

\* `self.data.velocity.x.abs() >= H_SPEED * 0.5`
SprintReached(vx) == Abs(vx) * 2 >= H_SPEED

\* the second `match`: check for state changes
Transition(st, d, inp) ==
    LET unqueued == [d EXCEPT !.queued_attack = FALSE]
        jump_pressed == inp.jump.just_changed /\ inp.jump.pressed
        same == [state |-> st, data |-> d]
    IN
    CASE st.kind = "Idle" ->
            LET idle_state ==
                    CASE st.sub = "Landing" ->
                            IF st.time < 0 THEN Idle("Standing", 0) ELSE st
                      [] st.sub = "Crouching" ->
                            IF ~inp.down.pressed THEN Idle("Standing", 0) ELSE st
                      [] OTHER ->
                            IF inp.down.pressed THEN Idle("Crouching", 0) ELSE st
            IN  IF ~d.on_ground THEN [state |-> Jump("Fall"), data |-> d]
                ELSE IF jump_pressed THEN [state |-> Jump("Rise"), data |-> d]
                ELSE IF d.queued_attack
                THEN [state |-> Attack("AttackIdle"), data |-> unqueued]
                ELSE IF d.direction # 0 THEN [state |-> Run("Start"), data |-> d]
                ELSE [state |-> idle_state, data |-> d]
      [] st.kind = "Jump" ->
            IF d.on_ground
            THEN [state |-> IF Abs(d.velocity.x) < 10
                            THEN Idle("Landing", LAND_TIME)
                            ELSE Idle("Standing", 0),
                  data |-> d]
            ELSE IF d.queued_attack
            THEN [state |-> Attack("AttackJump"), data |-> unqueued]
            ELSE IF d.velocity.y > 0 THEN [state |-> Jump("Fall"), data |-> d]
            ELSE IF d.velocity.y < 0 THEN [state |-> Jump("Rise"), data |-> d]
            ELSE same
      [] st.kind = "Run" ->
            IF ~d.on_ground THEN [state |-> Jump("Rise"), data |-> d]
            ELSE IF d.queued_attack
            THEN [state |-> Attack("AttackRun"), data |-> unqueued]
            ELSE IF st.sub = "Start"
            THEN [state |-> IF SprintReached(d.velocity.x)
                            THEN Run("Sprint") ELSE st,
                  data |-> d]
            ELSE [state |-> IF Abs(d.velocity.x) < 30
                            THEN Idle("Standing", 0) ELSE st,
                  data |-> d]
      [] st.kind = "AttackIdle" ->
            [state |-> IF st.stage = "Finish" THEN Idle("Standing", 0) ELSE st,
             data |-> d]
      [] st.kind = "AttackRun" ->
            [state |-> IF st.stage = "Finish" THEN Run("Sprint") ELSE st,
             data |-> d]
      [] OTHER ->
            [state |-> IF st.stage = "Finish" THEN Jump("Fall") ELSE st,
             data |-> d]

\* the flipping logic that ends update
Flip(d) ==
    [d EXCEPT !.flipped = IF d.velocity.x > 0 THEN FALSE
                          ELSE IF d.velocity.x < 0 THEN TRUE ELSE @]

\* `self.data.direction = ...` that starts update
Direction(inp) ==
    IF ~inp.left.pressed /\ inp.right.pressed THEN 1
    ELSE IF inp.left.pressed /\ ~inp.right.pressed THEN -1
    ELSE 0

\* Player::update; an update whose creep loop does not end changes nothing more
update(st, d, delta, inp, level_geometry) ==
    LET Change(arm) ==
            LET Flipping(next) ==
                    [state |-> next.state, data |-> Flip(next.data),
                     v |-> arm.v, h |-> arm.h]
            IN  IF arm.v.hung \/ arm.h.hung
                THEN [state |-> arm.state, data |-> arm.data,
                      v |-> arm.v, h |-> arm.h]
                ELSE Flipping(Transition(arm.state, arm.data, inp))
    IN  Change(UpdateArm(st, [d EXCEPT !.direction = Direction(inp)],
                         delta, inp, level_geometry))

\* ------------------------------------------------------------ Player::draw

\* the DrawParams Player::draw builds
PlayerParams(d) ==
    [position |-> d.position, flip_x |-> d.flipped, flip_y |-> FALSE,
     camera_locked |-> FALSE]

\* Player::draw: the jobs of the queue it returns, sprites named by field
draw(st, d) ==
    LET params == PlayerParams(d)
    IN  CASE st.kind = "Idle" ->
                IF st.sub \in {"Landing", "Crouching"}
                THEN <<SpriteJob("jump_land", params)>>
                ELSE <<SpriteJob("idle", params)>>
          [] st.kind = "Jump" ->
                IF st.sub = "Rise" THEN <<SpriteJob("jump_rise", params)>>
                ELSE <<SpriteJob("jump_fall", params)>>
          [] st.kind = "Run" ->
                IF st.sub = "Start" THEN <<SpriteJob("run_start", params)>>
                ELSE <<SheetJob("run", 0, params)>>
          [] st.kind = "AttackIdle" ->
                <<SheetJob("attack_stand_up", 0, params)>>
          [] st.kind = "AttackRun" ->
                <<SheetJob("attack_run_up_sword", 0, params),
                  SheetJob("attack_run_up_poncho", 0, params),
                  SheetJob("attack_run_feet", 0, params)>>
          [] OTHER ->
                <<SheetJob("attack_climb_up", 0, params)>>

\* --------------------------------------------------------- player actions

\* Input::update with, for every key, one event that leaves it at target[k]
InputUpdate(inp, target) ==
    [k \in KeyNames |-> Key(target[k], target[k] # inp[k].pressed)]

\* the level geometry the frames run in: a ground slab, a wall standing on
\* it, a low ceiling by the wall, and a ladder top above the ground
Ground == Rect(Px(0), Px(50), Px(100), Px(10))
Wall == Rect(Px(60), Px(0), Px(10), Px(50))
Ceiling == Rect(Px(40), Px(20), Px(20), Px(5))
LadderTop == Rect(Px(20), Px(30), Px(16), Px(16))
OpenLevel == [loaded |-> TRUE, rectangles |-> <<Ground>>, top_ladders |-> <<>>]
WalledLevel ==
    [loaded |-> TRUE, rectangles |-> <<Ground, Wall, Ceiling>>,
     top_ladders |-> <<LadderTop>>]
\* a collision rectangle of height 10, hanging from the position
Body == Rect(Px(-5), Px(-10), Px(10), Px(10))
\* where the player is put: in the air above the ground or standing at its
\* left end,
\* in the air above the ladder top, standing by the wall under the ceiling,
\* or standing to the left of the ceiling
Scenarios ==
    {[level |-> OpenLevel, position |-> Vec2(Px(50), Px(47)), on_ground |-> FALSE],
     [level |-> OpenLevel, position |-> Vec2(Px(3), Px(49)), on_ground |-> TRUE],
     [level |-> WalledLevel, position |-> Vec2(Px(28), Px(21)), on_ground |-> FALSE],
     [level |-> WalledLevel, position |-> Vec2(Px(54), Px(49)), on_ground |-> TRUE],
     [level |-> WalledLevel, position |-> Vec2(Px(32), Px(49)), on_ground |-> TRUE]}
\* the frame times, in hundredths of a second
Deltas == {2, 5, 10}

\* the pose a landing leaves: free, with the ground one pixel below
Resting(d, level_geometry) ==
    /\ ~collision(translate(d.collision_rect, d.position), level_geometry)
    /\ collision(translate(d.collision_rect,
                           Vec2(d.position.x, d.position.y + Unit)),
                 level_geometry)

\* Game::new: the level is loaded and the player placed in it; the machine
\* then runs its frames at one frame time
Spawn(scn, delta) ==
    LET d == [PlayerNewData EXCEPT !.collision_rect = Body,
                                   !.position = scn.position,
                                   !.on_ground = scn.on_ground]
    IN  /\ ~level.loaded
        /\ scn.on_ground => Resting(d, scn.level)
        /\ level' = scn.level
        /\ data' = d
        /\ delta_time' = delta
        /\ UNCHANGED <<state, input, frames, probe, player_dq, panicked>>
        /\ UNCHANGED <<renderVars, animVars, geomVars, pureVars>>

\* the keys an Input::update changes
Changed(inp, target) == {k \in KeyNames : target[k] # inp[k].pressed}

\* one turn of the event loop: Input::update on at most one key event, then
\* Game::update and the redraw it requests, of which Player::draw is kept
Frame(target) ==
    /\ level.loaded
    /\ frames < MaxFrames
    /\ ~(probe.v.hung \/ probe.h.hung)
    /\ ~panicked
    /\ Cardinality(Changed(input, target)) <= 1
    /\ \E inp \in {InputUpdate(input, target)} :
       \E u \in {update(state, data, delta_time, inp, level)} :
        /\ input' = inp
        /\ state' = u.state
        /\ data' = u.data
        /\ probe' = [v |-> u.v, h |-> u.h]
        /\ frames' = frames + 1
        /\ player_dq' = draw(u.state, u.data)
    /\ UNCHANGED <<level, delta_time, panicked>>
    /\ UNCHANGED <<renderVars, animVars, geomVars, pureVars>>

NextPlayer ==
    \/ \E scn \in Scenarios, delta \in Deltas : Spawn(scn, delta)
    \/ \E target \in [KeyNames -> BOOLEAN] : Frame(target)

SpecPlayer == Init /\ [][NextPlayer]_vars

\* ------------------------------------------------ properties of the player

\* the player's collision rectangle in the world
Hull(d) == translate(d.collision_rect, d.position)

\* C11: on the single ground rectangle x in [0,100], y in [50,60], a player
\* rectangle of height 10 with zero horizontal velocity that falls under
\* gravity is stopped with vertical velocity exactly 0 and its bottom edge on
\* the ground's top boundary, y = 50 (and stays there).
C11_RestsOnGround ==
    (level = OpenLevel /\ probe.v.hit /\ probe.v.velocity > 0
        /\ data.velocity.x = 0 /\ state.kind = "Idle")
    => /\ data.velocity.y = 0
       /\ bottom(Hull(data)) = top(Ground)

\* Key::just_pressed
just_pressed(key) == key.just_changed /\ key.pressed

\* a step that is one returning Player::update
UpdateStep ==
    /\ frames' = frames + 1
    /\ ~(probe'.v.hung \/ probe'.h.hung)

\* C12: when the player is grounded (in Idle, Run or a grounded attack state)
\* and jump is just pressed in a frame, then at the end of that update
\* velocity.y is -JUMP_SPEED and the state is Jump.
C12_JumpFromGround ==
    [][(UpdateStep /\ data.on_ground /\ just_pressed(input'.jump))
        => (data'.velocity.y = -JUMP_SPEED /\ state'.kind = "Jump")]_vars

\* right is held, left is not, and neither jump nor attack is pressed
RightHeld(inp) ==
    /\ inp.right.pressed /\ ~inp.left.pressed
    /\ ~inp.jump.pressed /\ ~inp.attack.pressed

NoInput(inp) == \A k \in KeyNames : ~inp[k].pressed

\* C14: an update with no input (no direction, down, jump or attack) of a
\* player in Idle(Standing) on the ground with zero velocity leaves the state
\* Idle(Standing) and position and velocity unchanged.
C14_IdleStaysIdle ==
    [][(UpdateStep /\ NoInput(input') /\ state = Idle("Standing", 0)
            /\ data.on_ground /\ data.velocity = Vec2(0, 0))
        => /\ state' = Idle("Standing", 0)
           /\ data'.position = data.position
           /\ data'.velocity = data.velocity]_vars

\* the first frame of a player placed standing on the ground, with no input
C14_Witness ==
    /\ frames = 1
    /\ NoInput(input)
    /\ state = Idle("Standing", 0)
    /\ data.on_ground
    /\ data.velocity = Vec2(0, 0)
    /\ Resting(data, level)

\* C15: for every player state Player::draw produces exactly one draw job, a
\* sprite job or a sprite-sheet job, placed at data.position with flip_x
\* equal to data.flipped.
C15_OneJobPerState ==
    (frames > 0 /\ ~(probe.v.hung \/ probe.h.hung))
    => /\ Len(player_dq) = 1
       /\ \A i \in 1..Len(player_dq) :
            /\ player_dq[i].kind \in {"Sprite", "SpriteSheet"}
            /\ player_dq[i].params.position = data.position
            /\ player_dq[i].params.flip_x = data.flipped

\* LevelGeometry::top_ladder_colliding, on the level the player runs in
OnLadderTop(rect) ==
    \E i \in 1..Len(level.top_ladders) : contains(level.top_ladders[i], rect)

\* C16: a ladder-top blocks downward entry from above but not from within.
\* A player whose rectangle does not overlap a ladder-top and that moves down
\* onto it halts at its surface with vertical velocity zeroed; a player whose
\* rectangle already overlaps it keeps moving down through it.
C16_LadderTopBlocksEntry ==
    [][UpdateStep
        => /\ (~OnLadderTop(Hull(data)) /\ OnLadderTop(Hull(data'))
                    /\ data'.position.y > data.position.y)
                => /\ data'.velocity.y = 0
                   /\ \A i \in 1..Len(level.top_ladders) :
                        bottom(Hull(data')) <= top(level.top_ladders[i])
           /\ (OnLadderTop(Hull(data)) /\ probe'.v.velocity > 0 /\ ~probe'.v.hit)
                => data'.position.y > data.position.y]_vars

\* ------------------------------------------------------------ draw offsets
\* positions, origins and sizes are in half pixels, so that a centre is exact;
\* a behaviour follows the instance of one job

Half(n) == 2 * n

\* Origin: a named anchor or a precise offset
OriginOf(kind, v) == [kind |-> kind, v |-> v]
OriginChoices ==
    {OriginOf(k, Vec2(0, 0)) :
        k \in {"TopLeft", "Center", "BottomMiddle", "BottomRight"}}
    \cup {OriginOf("Precise", Vec2(Half(1), 0))}

\* twice the factor Origin::as_vec2 multiplies `by` with
Anchor(kind) ==
    CASE kind = "TopLeft" -> Vec2(0, 0)
      [] kind = "CenterLeft" -> Vec2(0, 1)
      [] kind = "BottomLeft" -> Vec2(0, 2)
      [] kind = "TopMiddle" -> Vec2(1, 0)
      [] kind = "Center" -> Vec2(1, 1)
      [] kind = "BottomMiddle" -> Vec2(1, 2)
      [] kind = "TopRight" -> Vec2(2, 0)
      [] kind = "CenterRight" -> Vec2(2, 1)
      [] OTHER -> Vec2(2, 2)

\* Origin::as_vec2
as_vec2(origin, by) ==
    IF origin.kind = "Precise" THEN origin.v
    ELSE Vec2((Anchor(origin.kind).x * by.x) \div 2,
              (Anchor(origin.kind).y * by.y) \div 2)

\* SpriteSheet::size, from the texture size in pixels
size(texture_size, count, orientation) ==
    IF orientation = "Vertical"
    THEN Vec2(Half(texture_size.x), Half(texture_size.y \div count))
    ELSE Vec2(Half(texture_size.x \div count), Half(texture_size.y))

\* the y branch of flip_x and the x branch of flip_y exchanged
OffsetSwapped(position, origin, sz, flip_x, flip_y) ==
    LET flipped_offset == Vec2(position.x - sz.x + origin.x,
                               position.y - sz.y + origin.y)
        default_offset == Vec2(position.x - origin.x, position.y - origin.y)
    IN  IF flip_x /\ flip_y THEN flipped_offset
        ELSE IF flip_x THEN Vec2(default_offset.x, flipped_offset.y)
        ELSE IF flip_y THEN Vec2(flipped_offset.x, default_offset.y)
        ELSE default_offset

\* the flip logic of flatten_draw_queue, the same in both arms
Offset(position, origin, sz, flip_x, flip_y) ==
    LET flipped_offset == Vec2(position.x - sz.x + origin.x,
                               position.y - sz.y + origin.y)
        default_offset == Vec2(position.x - origin.x, position.y - origin.y)
    IN  IF flip_x /\ flip_y THEN flipped_offset
        ELSE IF flip_x THEN Vec2(flipped_offset.x, default_offset.y)
        ELSE IF flip_y THEN Vec2(default_offset.x, flipped_offset.y)
        ELSE default_offset

Placed(kind, position, origin, sz, flip_x, flip_y) ==
    [valid |-> TRUE, kind |-> kind, position |-> position, origin |-> origin,
     size |-> sz, flip_x |-> flip_x, flip_y |-> flip_y,
     offset |-> Offset(position, origin, sz, flip_x, flip_y),
     flip_mask |-> new_flip_mask(flip_x, flip_y)]

\* the Sprite arm of flatten_draw_queue, up to the instance it pushes
PlaceSprite(position, origin, texture_size, flip_x, flip_y) ==
    LET sz == Vec2(Half(texture_size.x), Half(texture_size.y))
    IN  /\ ~placement.valid
        /\ placement' = Placed("Sprite", position, as_vec2(origin, sz), sz,
                               flip_x, flip_y)
        /\ UNCHANGED <<ladder_tiles, resolved>>
        /\ UNCHANGED <<renderVars, animVars, geomVars, playVars>>

\* the SpriteSheet arm of flatten_draw_queue, up to the instance it pushes
PlaceSheet(position, origin, texture_size, count, orientation, flip_x, flip_y) ==
    LET sz == size(texture_size, count, orientation)
    IN  /\ ~placement.valid
        /\ placement' = Placed("SpriteSheet", position, as_vec2(origin, sz),
                               sz, flip_x, flip_y)
        /\ UNCHANGED <<ladder_tiles, resolved>>
        /\ UNCHANGED <<renderVars, animVars, geomVars, playVars>>

Positions == {Vec2(Half(x), Half(y)) : x, y \in (-1)..MaxPos}
TextureSizes == {Vec2(w, h) : w, h \in 1..MaxSize}

NextPlace ==
    \/ \E position \in Positions, origin \in OriginChoices,
          texture_size \in TextureSizes, flip_x, flip_y \in BOOLEAN :
            PlaceSprite(position, origin, texture_size, flip_x, flip_y)
    \/ \E position \in Positions, origin \in OriginChoices,
          texture_size \in TextureSizes, count \in 1..2,
          orientation \in {"Vertical", "Horizontal"},
          flip_x, flip_y \in BOOLEAN :
            PlaceSheet(position, origin, texture_size, count, orientation,
                       flip_x, flip_y)

SpecPlace == Init /\ [][NextPlace]_vars

\* C17: new_flip_mask is total over the four combinations of (flip_x, flip_y)
\* and is the bitwise OR of the two per-axis bits: (false,false) gives 0,
\* (true,false) FLIP_X, (false,true) FLIP_Y, (true,true) FLIP_X|FLIP_Y.
C17_FlipMaskIsOrOfBits ==
    placement.valid
    => /\ placement.flip_mask \in 0..3
       /\ placement.flip_mask =
            BitOr(IF placement.flip_x THEN FLIP_X ELSE 0,
                  IF placement.flip_y THEN FLIP_Y ELSE 0)
       /\ (placement.flip_mask % 2 = 1) <=> placement.flip_x
       /\ (placement.flip_mask \div 2 = 1) <=> placement.flip_y

\* an instance flipped on both axes
C17_Witness ==
    /\ placement.valid
    /\ placement.flip_x /\ placement.flip_y
    /\ placement.flip_mask = 3

\* the point of the drawn footprint that shows the sprite's origin: the origin
\* counted from the left or top edge, or from the opposite edge when flipped
ShownOrigin(p) ==
    Vec2(IF p.flip_x THEN p.offset.x + p.size.x - p.origin.x
         ELSE p.offset.x + p.origin.x,
         IF p.flip_y THEN p.offset.y + p.size.y - p.origin.y
         ELSE p.offset.y + p.origin.y)

\* C18: for every Sprite and SpriteSheet job the draw offset is, per axis,
\* position - origin when that axis is not flipped and position - size +
\* origin when it is (size: the whole texture of a sprite, one frame of a
\* sheet); so for every flip combination the mirrored origin point of the
\* footprint lands exactly on position.
C18_OffsetPerAxis ==
    placement.valid
    => /\ placement.offset.x =
            IF placement.flip_x
            THEN placement.position.x - placement.size.x + placement.origin.x
            ELSE placement.position.x - placement.origin.x
       /\ placement.offset.y =
            IF placement.flip_y
            THEN placement.position.y - placement.size.y + placement.origin.y
            ELSE placement.position.y - placement.origin.y
       /\ ShownOrigin(placement) = placement.position

\* a sheet frame flipped on x only, whose flipped and default offsets differ
C18_Witness ==
    /\ placement.valid
    /\ placement.kind = "SpriteSheet"
    /\ placement.flip_x /\ ~placement.flip_y
    /\ placement.size.x # 2 * placement.origin.x
    /\ placement.size.y # 2 * placement.origin.y
    /\ placement.offset.x = placement.position.x - placement.size.x + placement.origin.x

\* -------------------------------------------------------------- ladder tops

\* TileMap.tile_width and tile_height, in pixels
TileSize == 16

Tile(x, y) == [x |-> x, y |-> y]

\* iproduct!(0..width, 0..height): x is the outer index, y the inner one
Coordinates ==
    [k \in 1..(MaxCols * MaxRows) |->
        Tile((k - 1) \div MaxRows, (k - 1) % MaxRows)]

\* load_tilemap: the tiles of a layer, in the order of the coordinates
LayerTiles(used) ==
    SelectSeq(Coordinates, LAMBDA t : t \in used)

\* the filter of Game::new without its test of the column
IsLadderTopAnyColumn(tiles, i) ==
    IF i = 1 THEN TRUE
    ELSE tiles[i - 1].y + 1 # tiles[i].y

\* the filter of Game::new: the first tile, or one the previous tile is not
\* directly above
IsLadderTop(tiles, i) ==
    IF i = 1 THEN TRUE
    ELSE tiles[i - 1].y + 1 # tiles[i].y \/ tiles[i - 1].x # tiles[i].x

\* the rectangle Game::new makes of a block or ladder-top tile
TileRect(t) == Rect(TileSize * t.x, TileSize * t.y, TileSize, TileSize)

RECURSIVE TopsFrom(_, _)
\* Game::new: filter the enumerated ladder tiles, map them to rectangles
TopsFrom(tiles, i) ==
    IF i > Len(tiles) THEN <<>>
    ELSE (IF IsLadderTop(tiles, i) THEN <<TileRect(tiles[i])>> ELSE <<>>)
         \o TopsFrom(tiles, i + 1)

top_ladders(tiles) == TopsFrom(tiles, 1)

\* Game::new on a map whose "Ladders" layer uses the tiles `used`; a layer
\* with no tile does not load (load_tilemap unwraps its first used tile)
LoadLadders(used) ==
    /\ ~ladder_tiles.loaded
    /\ used # {}
    /\ ladder_tiles' = [loaded |-> TRUE, tiles |-> LayerTiles(used),
                        top_ladders |-> top_ladders(LayerTiles(used))]
    /\ UNCHANGED <<placement, resolved>>
    /\ UNCHANGED <<renderVars, animVars, geomVars, playVars>>

TileCoordinates == {Coordinates[k] : k \in 1..(MaxCols * MaxRows)}

NextLadders == \E used \in SUBSET TileCoordinates : LoadLadders(used)

SpecLadders == Init /\ [][NextLadders]_vars

\* the ladder tiles of the loaded layer
LadderSet == {ladder_tiles.tiles[i] : i \in 1..Len(ladder_tiles.tiles)}
\* a ladder tile with no ladder tile directly above it in its column
Topmost(t) == Tile(t.x, t.y - 1) \notin LadderSet

SnappedDown(axis) ==
    /\ axis.snapped % Unit = 0
    /\ axis.snapped <= axis.position /\ axis.position < axis.snapped + Unit
SnappedUp(axis) ==
    /\ axis.snapped % Unit = 0
    /\ axis.snapped >= axis.position /\ axis.position > axis.snapped - Unit

\* C20: when the rectangle displaced along an axis collides, v_collide and
\* h_collide first snap the position on that axis to an integer in the
\* direction of travel: floor when the velocity on that axis is negative,
\* ceil when it is positive.
C20_SnapInDirectionOfTravel ==
    \A axis \in {probe.v, probe.h} :
        axis.hit => /\ axis.velocity < 0 => SnappedDown(axis)
                    /\ axis.velocity > 0 => SnappedUp(axis)

\* C20, amended: the snap goes against the direction of travel: floor when
\* the velocity on that axis is positive, ceil otherwise.
C20_SnapAgainstTravel ==
    \A axis \in {probe.v, probe.h} :
        axis.hit => /\ axis.velocity > 0 => SnappedDown(axis)
                    /\ axis.velocity <= 0 => SnappedUp(axis)

\* a fall stopped from a position between two pixels
C20_Witness ==
    /\ probe.v.hit
    /\ probe.v.velocity > 0
    /\ probe.v.position % Unit # 0
    /\ probe.v.snapped < probe.v.position

\* ------------------------------------------- v_collide and h_collide alone
\* one call of v_collide or of h_collide, on a player put by a block, short
\* of it, touching it or overlapping it, at rest or moving either way

\* a level that is one block with nothing around it
FloatingLevel ==
    [loaded |-> TRUE, rectangles |-> <<Ceiling>>, top_ladders |-> <<>>]
Levels == {OpenLevel, WalledLevel, FloatingLevel}
\* positions on an axis: half pixels either side of the anchor
Offsets == {k * (Unit \div 2) : k \in -MaxOff..MaxOff}
\* the anchors: under the Ceiling with the top edge on its bottom edge, and
\* left of the Ceiling with the right edge on its left edge
BelowAnchor == Vec2(Px(50), Px(35))
BesideAnchor == Vec2(Px(35), Px(30))
\* velocities on the axis, in px/s
Speeds == {-Px(100), -Px(10), 0, Px(10), Px(100)}

\* the player a call is made on
Posed(position, velocity) ==
    [PlayerNewData EXCEPT !.collision_rect = Body,
                          !.position = position,
                          !.velocity = velocity]

Called(fn, level_geometry, delta, d, out) ==
    [valid |-> TRUE, fn |-> fn, level |-> level_geometry, delta |-> delta,
     before |-> d, after |-> out.data, axis |-> out.axis]

CallV(level_geometry, off, speed, delta) ==
    LET d == Posed(Vec2(BelowAnchor.x, BelowAnchor.y + off), Vec2(0, speed))
    IN  /\ ~resolved.valid
        /\ resolved' = Called("v_collide", level_geometry, delta, d,
                              v_collide(d, delta, level_geometry))
        /\ UNCHANGED <<placement, ladder_tiles>>
        /\ UNCHANGED <<renderVars, animVars, geomVars, playVars>>

CallH(level_geometry, off, speed, delta) ==
    LET d == Posed(Vec2(BesideAnchor.x + off, BesideAnchor.y), Vec2(speed, 0))
    IN  /\ ~resolved.valid
        /\ resolved' = Called("h_collide", level_geometry, delta, d,
                              h_collide(d, delta, level_geometry))
        /\ UNCHANGED <<placement, ladder_tiles>>
        /\ UNCHANGED <<renderVars, animVars, geomVars, playVars>>

NextCollide ==
    \/ \E level_geometry \in Levels, off \in Offsets, speed \in Speeds,
          delta \in Deltas : CallV(level_geometry, off, speed, delta)
    \/ \E level_geometry \in Levels, off \in Offsets, speed \in Speeds,
          delta \in Deltas : CallH(level_geometry, off, speed, delta)

SpecCollide == Init /\ [][NextCollide]_vars

\* C21: when the displaced rectangle collides on an axis, the creep of
\* v_collide / h_collide moves the position one unit per iteration against
\* the sign of the velocity until no collision remains: the position left is
\* not ahead of the snapped one, the rectangle left there collides with no
\* solid rectangle, and the velocity on that axis is exactly 0.
C21_CreepRetreatsUntilFree ==
    /\ (probe.v.hit /\ ~probe.v.hung)
        => /\ (probe.v.result - probe.v.snapped) * signum(probe.v.velocity) <= 0
           /\ probe.v.clear
    /\ (probe.h.hit /\ ~probe.h.hung)
        => /\ (probe.h.result - probe.h.snapped) * signum(probe.h.velocity) <= 0
           /\ probe.h.clear

\* C29: no penetration. If before Player::update the player's collision
\* rectangle overlaps no solid rectangle, then after the update it still
\* overlaps none, for every state, input, velocity and geometry, diagonal
\* movement toward the corner of a block included.
C29_NoPenetration ==
    [][(UpdateStep /\ ~collision(Hull(data), level))
        => ~collision(Hull(data'), level)]_vars

\* C22: the creep loop of v_collide and of h_collide always terminates, after
\* a number of one-unit steps bounded by the object's own size (the extent of
\* the collision rectangle on that axis), for every level geometry, every
\* position and every velocity, 0 included.
C22_CreepTerminates ==
    (resolved.valid /\ resolved.axis.hit)
    => /\ ~resolved.axis.hung
       /\ resolved.axis.steps * Unit
            <= (IF resolved.fn = "v_collide"
                THEN resolved.before.collision_rect.h
                ELSE resolved.before.collision_rect.w)

\* an update of a state whose arm calls v_collide, h_collide and update_pos
MovingStep == UpdateStep /\ state.kind # "Idle"

\* C23: in every frame in which Player::update resolves movement, the
\* resolution runs horizontal first and vertical second: the horizontal test
\* and correction are done before the vertical ones, so h_collide works on
\* the position the frame started with and v_collide on the x h_collide left.
C23_HorizontalFirst ==
    [][MovingStep
        => /\ probe'.h.called /\ probe'.v.called
           /\ probe'.h.cross = data.position.y
           /\ probe'.v.cross = probe'.h.result]_vars

\* C23, with the order of the code: vertical first and horizontal second, so
\* v_collide works on the position the frame started with and h_collide on
\* the y v_collide left.
C23_VerticalFirst ==
    [][MovingStep
        => /\ probe'.v.called /\ probe'.h.called
           /\ probe'.v.cross = data.position.x
           /\ probe'.v.position = data.position.y
           /\ probe'.h.cross = probe'.v.result
           /\ probe'.h.position = data.position.x]_vars

\* an update in which both calls collided and both changed the position
C23_Witness ==
    /\ probe.v.called /\ probe.h.called
    /\ probe.v.hit /\ probe.v.result # probe.v.position
    /\ probe.h.hit /\ probe.h.result # probe.h.position
    /\ probe.h.cross = probe.v.result

\* the rectangle one unit below the player's collides with solid geometry
GroundBelow(d, level_geometry) ==
    collision(translate(d.collision_rect,
                        Vec2(d.position.x, d.position.y + Unit)),
              level_geometry)

\* C24: ground state is derived from geometry each frame. After every
\* Player::update the player is on ground only if its collision rectangle
\* translated one unit downward collides with solid geometry; a player in
\* Idle or Run that has moved past the edge of the block it stood on, without
\* jumping, is no longer on ground and its state becomes Jump.
C24_GroundIsDerived ==
    (frames > 0 /\ ~(probe.v.hung \/ probe.h.hung))
    => /\ data.on_ground => GroundBelow(data, level)
       /\ state.kind \in {"Idle", "Run"} => GroundBelow(data, level)

AttackKinds == {"AttackIdle", "AttackRun", "AttackJump"}

\* C25: while an attack state is active its stage goes through Up, then
\* Down, then Finish: Finish is never reached without Down having been the
\* stage immediately before it, and the attack state is left for its base
\* state only once the stage is Finish.
C25_StageUpDownFinish ==
    [][UpdateStep
        => /\ (state.kind \in AttackKinds /\ state.stage = "Up"
                    /\ state'.kind = state.kind)
                => state'.stage \in {"Up", "Down"}
           /\ (state.kind \in AttackKinds /\ state'.kind \notin AttackKinds)
                => state.stage = "Down"]_vars

\* an update that takes the player into an attack state
AttackStarts == state.kind \notin AttackKinds /\ state'.kind \in AttackKinds

\* C26: an attack is queued only by a rising edge of the attack input, never
\* by holding the button; queued_attack is false at the end of any update in
\* which the queued attack was consumed by entering an attack state or in
\* which attack_cooldown was still positive; so an attack starts only from a
\* press that no earlier attack has used.
C26_AttackEdgeTriggered ==
    [][UpdateStep
        => /\ (~data.queued_attack /\ data'.queued_attack)
                => just_pressed(input'.attack)
           /\ AttackStarts
                => /\ ~data'.queued_attack
                   /\ data.queued_attack \/ just_pressed(input'.attack)
           /\ data'.attack_cooldown > 0 => ~data'.queued_attack]_vars

\* an attack under way, started by a press of the attack key that is still
\* held, with nothing queued
C26_Witness ==
    /\ state.kind \in AttackKinds
    /\ state.time < ATTACK_DURATION
    /\ input.attack.pressed /\ ~input.attack.just_changed
    /\ ~data.queued_attack

\* `self.data.velocity.x.abs() < 0.3`
BelowEpsilon(vx) == Abs(vx) * 10 < 3 * Unit

\* C27: from any Run state, Run(Start) as well as Run(Sprint), if the player
\* stays on the ground and the frames have no direction, jump or attack
\* input, horizontal speed decays and the state becomes Idle once
\* |velocity.x| has dropped below the small epsilon.
C27_RunDecaysToIdle ==
    [][(UpdateStep /\ state.kind = "Run" /\ NoInput(input')
            /\ data.on_ground /\ data'.on_ground)
        => /\ Abs(data'.velocity.x) <= Abs(data.velocity.x)
           /\ BelowEpsilon(data'.velocity.x) => state'.kind = "Idle"]_vars

\* `const MAX_JUMPS: i8 = 2`
MAX_JUMPS == 2

\* C28: jumps are gated. The number of jumps the player can start before
\* landing is bounded by the jump counter and landing resets it: once no jump
\* is left (the test `jump_count > 0` fails), jump just pressed while airborne
\* (state Jump, not on ground) does not set velocity.y to -JUMP_SPEED, and a
\* landing puts the counter back to MAX_JUMPS.
C28_JumpsAreGated ==
    [][UpdateStep
        => /\ (state.kind = "Jump" /\ ~data.on_ground /\ data.jump_count <= 0
                    /\ just_pressed(input'.jump))
                => data'.velocity.y # -JUMP_SPEED
           /\ (~data.on_ground /\ data'.on_ground)
                => data'.jump_count = MAX_JUMPS]_vars

\* ------------------------------------------------------------ runs of jumps
\* the frames of a player whose jump key goes down in one frame and up in the
\* next, with no other key touched

\* `self.jump_count -= 1` leaves the range of i8: the arms that call
\* jump_test, a press, and the counter at i8::MIN
Overflows(st, d, inp) ==
    /\ st.kind \in {"Idle", "Jump", "Run"}
    /\ inp.jump.just_changed /\ inp.jump.pressed
    /\ d.jump_count = -128

\* one turn of the event loop with the jump key toggled. Where the decrement
\* overflows, a build with overflow checks panics and one without wraps.
JumpFrame ==
    LET target == [k \in KeyNames |-> IF k = "jump" THEN ~input[k].pressed
                                       ELSE input[k].pressed]
    IN  /\ level.loaded
        /\ frames < 2 * MaxPresses
        /\ ~(probe.v.hung \/ probe.h.hung)
        /\ ~panicked
        /\ \E inp \in {InputUpdate(input, target)} :
             \/ /\ Overflows(state, data, inp)
                /\ panicked' = TRUE
                /\ input' = inp
                /\ UNCHANGED <<state, data, probe, frames, player_dq>>
             \/ \E u \in {update(state, data, delta_time, inp, level)} :
                /\ input' = inp
                /\ state' = u.state
                /\ data' = u.data
                /\ probe' = [v |-> u.v, h |-> u.h]
                /\ frames' = frames + 1
                /\ player_dq' = draw(u.state, u.data)
                /\ UNCHANGED panicked
        /\ UNCHANGED <<level, delta_time>>
        /\ UNCHANGED <<renderVars, animVars, geomVars, pureVars>>

NextJumps ==
    \/ \E scn \in Scenarios, delta \in Deltas : Spawn(scn, delta)
    \/ JumpFrame

SpecJumps == Init /\ [][NextJumps]_vars

\* C30: Data.jump_count, a signed 8-bit counter that starts at 0 and that
\* jump_test decrements by 1 on every jump just pressed, stays within
\* [-128, 127]: no number of jumps makes the decrement overflow, so no update
\* panics and every press leaves the counter exactly one lower.
C30_JumpCountInRange ==
    [][/\ ~panicked'
       /\ (UpdateStep /\ just_pressed(input'.jump)
                /\ state.kind \in {"Idle", "Jump", "Run"})
            => data'.jump_count = data.jump_count - 1]_vars

Next ==
    \/ NextRender \/ NextAnim \/ NextGeom \/ NextPlayer \/ NextPlace
    \/ NextLadders \/ NextCollide \/ NextJumps

Spec == Init /\ [][Next]_vars
====
